---- MODULE Spec2Model ----
(***************************************************************************)
(* Wallet identity and authorization subsystem of NayaSutra.                *)
(*                                                                          *)
(* The model covers the admin wallet management service                     *)
(* (adminRegisterUserWithWallet, adminUpdateUserWallet, adminVerifyWallet), *)
(* the admin console handlers that call it, the login-time check            *)
(* verifyWalletAuthorization with its SQL function, and the storage schema  *)
(* of the wallet migration (UNIQUE wallet_address, the log_wallet_change    *)
(* trigger, the wallet_audit_log table).                                    *)
(*                                                                          *)
(* Every service function is a sequence of awaited collaborator calls; one *)
(* action models one awaited call together with the synchronous code that  *)
(* follows it, so concurrent requests interleave at the awaits.            *)
(***************************************************************************)
EXTENDS Integers, Sequences, FiniteSets, TLC

\* ------------------------------------------------------------------ bounds
\* Number of requests issued in one behaviour; all of them may overlap.
MaxCalls == 2

\* ------------------------------------------------------------------ values
\* SQL NULL / JavaScript null.  Nullable columns hold tuples, so NULL is one.
NULL == <<"NULL">>
\* new Date().toISOString(): some non-null timestamp.
Now == <<"now">>

\* Number of hexadecimal digits of a wallet address: 40 in the program
\* (/^0x[a-fA-F0-9]{40}$/), scaled down here.
HexLen == 4

HexChars == {"0", "1", "a", "b", "c", "d", "e", "f", "A", "B", "C", "D", "E", "F"}

\* A string is a sequence of one-character strings.
Pad == [i \in 1..(HexLen - 2) |-> "0"]
Addr(c1, c2) == <<"0", "x">> \o Pad \o <<c1, c2>>

\* String.prototype.toLowerCase on the characters the model uses.
LowerChar(ch) ==
    CASE ch = "A" -> "a" [] ch = "B" -> "b" [] ch = "C" -> "c"
      [] ch = "D" -> "d" [] ch = "E" -> "e" [] ch = "F" -> "f"
      [] ch = "X" -> "x" [] OTHER -> ch
toLowerCase(s) == [i \in 1..Len(s) |-> LowerChar(s[i])]

\* Mutant: the console only looks at the 0x prefix and the length.
MatchesPrefixOnly(s) ==
    /\ Len(s) = HexLen + 2
    /\ s[1] = "0"
    /\ s[2] = "x"

\* walletAddress.match(/^0x[a-fA-F0-9]{40}$/)
MatchesWalletFormat(s) ==
    /\ Len(s) = HexLen + 2
    /\ s[1] = "0"
    /\ s[2] = "x"
    /\ \A i \in 3..Len(s) : s[i] \in HexChars

\* SQL LIKE: % matches any run of characters, _ matches one character.
RECURSIVE Like(_, _)
Like(s, p) ==
    IF p = <<>> THEN s = <<>>
    ELSE IF Head(p) = "%"
         THEN Like(s, Tail(p)) \/ (s # <<>> /\ Like(Tail(s), p))
         ELSE /\ s # <<>>
              /\ (Head(p) = "_" \/ Head(p) = Head(s))
              /\ Like(Tail(s), Tail(p))

\* SQL ILIKE: LIKE without regard to case.
ILike(s, p) == Like(toLowerCase(s), toLowerCase(p))

\* OLD.is_wallet_verified::TEXT
BoolText(b) == IF b THEN <<"t", "r", "u", "e">> ELSE <<"f", "a", "l", "s", "e">>

ProfileId(n) == <<"profile", n>>
UserId(n) == <<"user", n>>

\* ------------------------------------------------------------------ inputs
WalletAB == Addr("a", "b")
WalletCD == Addr("c", "d")
WalletEF == Addr("e", "f")

\* Wallet strings typed into the admin console.
FormWallets == {Addr("A", "B"), Addr("C", "D"), WalletEF, Addr("_", "b")}
Emails == {"lawyer@x.com", "new@x.com"}
FullNames == {"New User"}
RegRoles == {"clerk"}
Booleans == {TRUE, FALSE}

\* Wallet strings and roles presented at login.
LoginWallets == {WalletAB, Addr("C", "D"), WalletCD, <<"0", "x", "%">>, <<>>}
LoginRoles == {"lawyer", "clerk", ""}

NoUser == NULL
AdminUser == UserId(1)
LawyerUser == UserId(2)
GuestUser == UserId(3)
\* supabase.auth.getUser(): the session of the person at the console.
Callers == {NoUser, AdminUser, LawyerUser, GuestUser}

\* ------------------------------------------------------------------ errors
ErrBadFormat == "Invalid wallet address format"
ErrNotAuthenticated == "Not authenticated"
ErrUnauthorizedRegister == "Unauthorized: Only admins can register users"
ErrUnauthorizedUpdate == "Unauthorized: Only admins can update wallets"
ErrWalletRegistered == "This wallet address is already registered"
ErrEmailRegistered == "This email is already registered"
ErrCreateAuthUser == "Failed to create auth user"
ErrCreateProfile == "Failed to create profile"
ErrProfileNotFound == "Profile not found"
ErrWalletInUse == "New wallet address is already in use"
ErrUpdateWallet == "Failed to update wallet"
ErrVerifyWallet == "Failed to update wallet verification"
ErrException == "exception"
ErrMissingInput == "Missing wallet address or role"
ErrRpc == "rpc error"
ErrWalletNotFound == "Wallet not found or not authorized for this role"
NoError == ""

VARIABLES
    profiles,    \* public.profiles: sequence of rows in insertion order
    identities,  \* auth users of the identity provider: set of [id, email]
    audit,       \* public.wallet_audit_log: sequence of rows in insertion order
    nextUser,    \* number of the next auth user the provider creates
    calls        \* the requests: calls[c] is request c's position and locals

vars == <<profiles, identities, audit, nextUser, calls>>

CallIds == 1..MaxCalls

\* ------------------------------------------------------------------ storage
Rows == {profiles[i] : i \in 1..Len(profiles)}

\* .maybeSingle(): the row when exactly one matches, else no data.
MaybeSingle(S) == IF Cardinality(S) = 1 THEN S ELSE {}

\* .from("profiles").select("role_category").eq("user_id", uid).maybeSingle()
ProfileOfUser(uid) == MaybeSingle({r \in Rows : r.user_id = uid})

\* Mutant: the gate only asks that the caller has a profile.
IsAnyProfile(adminProfile) == adminProfile # {}

\* adminProfile?.role_category is "admin" or "judiciary"
IsAdminRole(adminProfile) ==
    \E r \in adminProfile : r.role_category \in {"admin", "judiciary"}

\* Mutant: the existence check finds no profile.
NoProfileWithWallet(w) == {}

\* .from("profiles").select("id").eq("wallet_address", w).maybeSingle()
ProfileWithWallet(w) == MaybeSingle({r \in Rows : r.wallet_address = w})

\* .from("profiles").select("id").eq("email", e).maybeSingle()
ProfileWithEmail(e) == MaybeSingle({r \in Rows : r.email = e})

\* .from("profiles").select("wallet_address").eq("id", pid).maybeSingle()
ProfileById(pid) == MaybeSingle({r \in Rows : r.id = pid})

\* Mutant: the in-use check does not leave out the target profile.
AnyProfileWithWallet(w, pid) ==
    MaybeSingle({r \in Rows : r.wallet_address = w})

\* ... .eq("wallet_address", w).neq("id", pid).maybeSingle()
OtherProfileWithWallet(w, pid) ==
    MaybeSingle({r \in Rows : r.wallet_address = w /\ r.id # pid})

\* Mutant: the column carries no UNIQUE constraint.
WalletNotConstrained(w, pid) == FALSE

\* wallet_address TEXT UNIQUE: a write of w to row pid is rejected when
\* another row already holds w (NULLs never collide).
WalletUniqueViolation(w, pid) ==
    /\ w # NULL
    /\ \E r \in Rows : r.id # pid /\ r.wallet_address = w

\* History of a request: whether the store's rejection of its write of w to
\* row pid is the uniqueness constraint's.
Rejected(w, pid) == IF WalletUniqueViolation(w, pid) THEN {"uniqueViolation"} ELSE {}

\* A row of wallet_audit_log.  changed_at DEFAULT now() is the time of the
\* inserting statement: rows inserted by one statement share it, and it is
\* later than that of every row stored before.
AuditRow(pid, action, old, new, by) ==
    [profile_id |-> pid, action |-> action, old_value |-> old,
     new_value |-> new, changed_by |-> by, changed_at |-> Len(audit) + 1]

\* Mutant: the trigger logs a wallet that becomes verified, and not one that
\* becomes unverified.
log_wallet_change_verified_only(old, new, uid) ==
    (IF old.wallet_address # new.wallet_address
     THEN <<AuditRow(new.id, "wallet_changed", old.wallet_address,
                     new.wallet_address, uid)>>
     ELSE <<>>)
    \o
    (IF ~old.is_wallet_verified /\ new.is_wallet_verified
     THEN <<AuditRow(new.id, "wallet_verified", BoolText(FALSE), BoolText(TRUE), uid)>>
     ELSE <<>>)

\* Mutant: the trigger logs the verification flag on every update, changed
\* or not.
log_wallet_change_always(old, new, uid) ==
    (IF old.wallet_address # new.wallet_address
     THEN <<AuditRow(new.id, "wallet_changed", old.wallet_address,
                     new.wallet_address, uid)>>
     ELSE <<>>)
    \o
    <<AuditRow(new.id,
               IF new.is_wallet_verified THEN "wallet_verified"
                                         ELSE "wallet_unverified",
               BoolText(old.is_wallet_verified),
               BoolText(new.is_wallet_verified), uid)>>

\* log_wallet_change(): the rows the AFTER UPDATE trigger inserts.
log_wallet_change(old, new, uid) ==
    (IF old.wallet_address # new.wallet_address
     THEN <<AuditRow(new.id, "wallet_changed", old.wallet_address,
                     new.wallet_address, uid)>>
     ELSE <<>>)
    \o
    (IF old.is_wallet_verified # new.is_wallet_verified
     THEN <<AuditRow(new.id,
                     IF new.is_wallet_verified THEN "wallet_verified"
                                               ELSE "wallet_unverified",
                     BoolText(old.is_wallet_verified),
                     BoolText(new.is_wallet_verified), uid)>>
     ELSE <<>>)

\* ------------------------------------------------------------------ requests
Result(ok, err, pid) == [success |-> ok, error |-> err, profileId |-> pid]
NoResult == Result(FALSE, NoError, NULL)

IdleCall ==
    [op |-> "none", pc |-> "idle", caller |-> NoUser,
     walletAddress |-> NULL, email |-> "", fullName |-> "", roleCategory |-> "",
     profileId |-> NULL, verify |-> FALSE,
     normalizedWallet |-> NULL, oldWallet |-> NULL, priorWallet |-> NULL,
     authUser |-> NULL, newProfile |-> NULL, wrote |-> {}, racedWith |-> {},
     result |-> NoResult]

Finish(c, res) == [calls[c] EXCEPT !.pc = "done", !.result = res]

Init ==
    /\ \E adminRole \in {"admin", "judiciary"} :
         profiles =
           << [id |-> ProfileId(1), user_id |-> AdminUser, email |-> "admin@x.com",
               full_name |-> "Admin", role_category |-> adminRole,
               wallet_address |-> NULL, is_wallet_verified |-> FALSE,
               wallet_verified_at |-> NULL],
              [id |-> ProfileId(2), user_id |-> LawyerUser, email |-> "lawyer@x.com",
               full_name |-> "Lawyer", role_category |-> "lawyer",
               wallet_address |-> WalletAB, is_wallet_verified |-> TRUE,
               wallet_verified_at |-> Now] >>
    /\ identities = { [id |-> AdminUser, email |-> "admin@x.com"],
                      [id |-> LawyerUser, email |-> "lawyer@x.com"],
                      [id |-> GuestUser, email |-> "guest@x.com"] }
    /\ audit = <<>>
    /\ nextUser = 4
    /\ calls = [c \in CallIds |-> IdleCall]

\* Requests are issued in order of their number.
CanStart(c) ==
    /\ calls[c].pc = "idle"
    /\ \A d \in CallIds : d < c => calls[d].pc # "idle"

\* Requests that passed their wallet existence check for address w and have
\* not yet attempted their write.
PendingWriters(c, w) ==
    {d \in CallIds \ {c} :
        /\ calls[d].pc \in {"reg_email", "reg_createUser", "reg_insert", "upd_update"}
        /\ calls[d].normalizedWallet = w}

\* ------------------------------------------------------------------ register
\* handleRegisterUser: the console validates the form, then calls the service.
handleRegisterUser(c) ==
    \E caller \in Callers, email \in Emails, fullName \in FullNames,
       wallet \in FormWallets, role \in RegRoles :
        /\ CanStart(c)
        /\ LET req == [calls[c] EXCEPT !.op = "register", !.caller = caller,
                           !.email = email, !.fullName = fullName,
                           !.walletAddress = wallet, !.roleCategory = role]
           IN calls' = [calls EXCEPT ![c] =
                  IF MatchesWalletFormat(wallet)
                  THEN [req EXCEPT !.pc = "reg_getUser"]
                  ELSE [req EXCEPT !.pc = "done",
                                   !.result = Result(FALSE, ErrBadFormat, NULL)]]
        /\ UNCHANGED <<profiles, identities, audit, nextUser>>

\* supabase.auth.getUser(); no user: "Not authenticated".
RegGetUser(c) ==
    /\ calls[c].pc = "reg_getUser"
    /\ calls' = [calls EXCEPT ![c] =
           IF calls[c].caller = NoUser
           THEN Finish(c, Result(FALSE, ErrNotAuthenticated, NULL))
           ELSE [calls[c] EXCEPT !.pc = "reg_checkAdmin"]]
    /\ UNCHANGED <<profiles, identities, audit, nextUser>>

\* Read the caller's profile; only admin and judiciary go on.  The wallet is
\* lower-cased on the way to the first existence check.
RegCheckAdmin(c) ==
    /\ calls[c].pc = "reg_checkAdmin"
    /\ calls' = [calls EXCEPT ![c] =
           IF ~IsAdminRole(ProfileOfUser(calls[c].caller))
           THEN Finish(c, Result(FALSE, ErrUnauthorizedRegister, NULL))
           ELSE [calls[c] EXCEPT !.pc = "reg_wallet",
                     !.normalizedWallet = toLowerCase(calls[c].walletAddress)]]
    /\ UNCHANGED <<profiles, identities, audit, nextUser>>

\* Mutant: the email is looked up before the wallet.
RegCheckEmailFirst(c) ==
    /\ calls[c].pc = "reg_wallet"
    /\ calls' = [calls EXCEPT ![c] =
           IF ProfileWithEmail(calls[c].email) # {}
           THEN Finish(c, Result(FALSE, ErrEmailRegistered, NULL))
           ELSE IF ProfileWithWallet(calls[c].normalizedWallet) # {}
                THEN Finish(c, Result(FALSE, ErrWalletRegistered, NULL))
                ELSE [calls[c] EXCEPT !.pc = "reg_email"]]
    /\ UNCHANGED <<profiles, identities, audit, nextUser>>

\* Check if wallet already exists.
RegCheckWallet(c) ==
    /\ calls[c].pc = "reg_wallet"
    /\ calls' = [calls EXCEPT ![c] =
           IF ProfileWithWallet(calls[c].normalizedWallet) # {}
           THEN Finish(c, Result(FALSE, ErrWalletRegistered, NULL))
           ELSE [calls[c] EXCEPT !.pc = "reg_email"]]
    /\ UNCHANGED <<profiles, identities, audit, nextUser>>

\* Check if email already exists.
RegCheckEmail(c) ==
    /\ calls[c].pc = "reg_email"
    /\ calls' = [calls EXCEPT ![c] =
           IF ProfileWithEmail(calls[c].email) # {}
           THEN Finish(c, Result(FALSE, ErrEmailRegistered, NULL))
           ELSE [calls[c] EXCEPT !.pc = "reg_createUser"]]
    /\ UNCHANGED <<profiles, identities, audit, nextUser>>

\* supabase.auth.admin.createUser: the provider creates the auth user or
\* answers with an error.
RegCreateUser(c) ==
    /\ calls[c].pc = "reg_createUser"
    /\ \/ /\ identities' = identities \cup
                 {[id |-> UserId(nextUser), email |-> calls[c].email]}
          /\ nextUser' = nextUser + 1
          /\ calls' = [calls EXCEPT ![c] =
                 [calls[c] EXCEPT !.pc = "reg_insert",
                                  !.authUser = UserId(nextUser),
                                  !.wrote = @ \cup {"identity"}]]
       \/ /\ calls' = [calls EXCEPT ![c] =
                 Finish(c, Result(FALSE, ErrCreateAuthUser, NULL))]
          /\ UNCHANGED <<identities, nextUser>>
    /\ UNCHANGED <<profiles, audit>>

\* The row adminRegisterUserWithWallet inserts into profiles.
NewProfileRow(c) ==
    [id |-> ProfileId(Len(profiles) + 1), user_id |-> calls[c].authUser,
     email |-> calls[c].email, full_name |-> calls[c].fullName,
     role_category |-> calls[c].roleCategory,
     wallet_address |-> calls[c].normalizedWallet,
     is_wallet_verified |-> TRUE, wallet_verified_at |-> Now]

\* .from("profiles").insert({...}).select().single(): the row is stored, or
\* the store answers with an error (always so when the wallet is taken).
RegInsertProfile(c) ==
    /\ calls[c].pc = "reg_insert"
    /\ \/ /\ ~WalletUniqueViolation(calls[c].normalizedWallet, NewProfileRow(c).id)
          /\ profiles' = Append(profiles, NewProfileRow(c))
          /\ calls' = [calls EXCEPT ![c] =
                 [calls[c] EXCEPT !.pc = "reg_audit",
                                  !.newProfile = NewProfileRow(c).id,
                                  !.wrote = @ \cup {"profile"},
                                  !.racedWith = PendingWriters(c, calls[c].normalizedWallet)]]
       \/ /\ calls' = [calls EXCEPT ![c] =
                 [calls[c] EXCEPT !.pc = "reg_cleanup",
                                  !.wrote = @ \cup Rejected(calls[c].normalizedWallet,
                                                            NewProfileRow(c).id),
                                  !.racedWith = PendingWriters(c, calls[c].normalizedWallet)]]
          /\ UNCHANGED profiles
    /\ UNCHANGED <<identities, audit, nextUser>>

\* Mutant: the compensating deletion deletes nothing.
DeleteUserSkipped(uid) == identities

\* supabase.auth.admin.deleteUser(id): the auth user is gone afterwards when
\* the provider carries the deletion out.
DeleteUser(uid) == {u \in identities : u.id # uid}

\* if (profileError): delete the auth user (the outcome is not looked at) and
\* report the failed insert.
RegCleanup(c) ==
    /\ calls[c].pc = "reg_cleanup"
    /\ \/ /\ identities' = DeleteUser(calls[c].authUser)
          /\ calls' = [calls EXCEPT ![c] =
                 [Finish(c, Result(FALSE, ErrCreateProfile, NULL))
                     EXCEPT !.wrote = @ \cup {"deleted"}]]
       \/ /\ UNCHANGED identities
          /\ calls' = [calls EXCEPT ![c] =
                 [Finish(c, Result(FALSE, ErrCreateProfile, NULL))
                     EXCEPT !.wrote = @ \cup {"deleteFailed"}]]
    /\ UNCHANGED <<profiles, audit, nextUser>>

\* .from("wallet_audit_log").insert({...}): the row is stored or the store
\* rejects it; the outcome is not looked at.  Success is returned.
RegAudit(c) ==
    /\ calls[c].pc = "reg_audit"
    /\ \/ /\ audit' = Append(audit,
                 AuditRow(calls[c].newProfile, "wallet_added", NULL,
                          calls[c].normalizedWallet, calls[c].caller))
          /\ calls' = [calls EXCEPT ![c] =
                 [Finish(c, Result(TRUE, NoError, calls[c].newProfile))
                     EXCEPT !.wrote = @ \cup {"audit"}]]
       \/ /\ UNCHANGED audit
          /\ calls' = [calls EXCEPT ![c] =
                 Finish(c, Result(TRUE, NoError, calls[c].newProfile))]
    /\ UNCHANGED <<profiles, identities, nextUser>>

\* ------------------------------------------------------------------ updateWallet
\* Profile ids the console may hold; the last one has no row until a
\* registration creates it.
ProfileTargets == {ProfileId(1), ProfileId(2), ProfileId(3)}

\* handleUpdateWallet: the console validates the form, then calls the service.
handleUpdateWallet(c) ==
    \E caller \in Callers, pid \in ProfileTargets, wallet \in FormWallets :
        /\ CanStart(c)
        /\ LET req == [calls[c] EXCEPT !.op = "updateWallet", !.caller = caller,
                           !.profileId = pid, !.walletAddress = wallet]
           IN calls' = [calls EXCEPT ![c] =
                  IF MatchesWalletFormat(wallet)
                  THEN [req EXCEPT !.pc = "upd_getUser"]
                  ELSE [req EXCEPT !.pc = "done",
                                   !.result = Result(FALSE, ErrBadFormat, NULL)]]
        /\ UNCHANGED <<profiles, identities, audit, nextUser>>

UpdGetUser(c) ==
    /\ calls[c].pc = "upd_getUser"
    /\ calls' = [calls EXCEPT ![c] =
           IF calls[c].caller = NoUser
           THEN Finish(c, Result(FALSE, ErrNotAuthenticated, NULL))
           ELSE [calls[c] EXCEPT !.pc = "upd_checkAdmin"]]
    /\ UNCHANGED <<profiles, identities, audit, nextUser>>

UpdCheckAdmin(c) ==
    /\ calls[c].pc = "upd_checkAdmin"
    /\ calls' = [calls EXCEPT ![c] =
           IF ~IsAdminRole(ProfileOfUser(calls[c].caller))
           THEN Finish(c, Result(FALSE, ErrUnauthorizedUpdate, NULL))
           ELSE [calls[c] EXCEPT !.pc = "upd_load",
                     !.normalizedWallet = toLowerCase(calls[c].walletAddress)]]
    /\ UNCHANGED <<profiles, identities, audit, nextUser>>

\* Get current wallet for audit.
UpdLoadProfile(c) ==
    /\ calls[c].pc = "upd_load"
    /\ calls' = [calls EXCEPT ![c] =
           IF ProfileById(calls[c].profileId) = {}
           THEN Finish(c, Result(FALSE, ErrProfileNotFound, NULL))
           ELSE [calls[c] EXCEPT !.pc = "upd_wallet",
                     !.oldWallet =
                         (CHOOSE r \in ProfileById(calls[c].profileId) : TRUE).wallet_address]]
    /\ UNCHANGED <<profiles, identities, audit, nextUser>>

\* Check if new wallet is already in use.
UpdCheckWallet(c) ==
    /\ calls[c].pc = "upd_wallet"
    /\ calls' = [calls EXCEPT ![c] =
           IF OtherProfileWithWallet(calls[c].normalizedWallet, calls[c].profileId) # {}
           THEN Finish(c, Result(FALSE, ErrWalletInUse, NULL))
           ELSE [calls[c] EXCEPT !.pc = "upd_update"]]
    /\ UNCHANGED <<profiles, identities, audit, nextUser>>

\* Position of the row with id pid (0 when there is none).
RowIndex(pid) ==
    IF \E i \in 1..Len(profiles) : profiles[i].id = pid
    THEN CHOOSE i \in 1..Len(profiles) : profiles[i].id = pid
    ELSE 0

\* Mutant: the verification columns are written to every row.
UpdateEveryRow(pid, new) ==
    [i \in 1..Len(profiles) |->
        IF profiles[i].id = pid
        THEN new
        ELSE [profiles[i] EXCEPT !.is_wallet_verified = new.is_wallet_verified,
                                 !.wallet_verified_at = new.wallet_verified_at]]

\* UPDATE profiles SET ... WHERE id = pid, with the AFTER UPDATE trigger
\* log_wallet_changes_trigger run for the row; uid is auth.uid().
UpdateProfileRow(pid, new) ==
    [profiles EXCEPT ![RowIndex(pid)] = new]

\* Mutant: the rebind verifies the profile and leaves its wallet as it was.
UpdatedWalletRowKeepsWallet(old, w) ==
    [old EXCEPT !.is_wallet_verified = TRUE, !.wallet_verified_at = Now]

\* Mutant: the rebind leaves the verification columns as they were.
UpdatedWalletRowOnly(old, w) == [old EXCEPT !.wallet_address = w]

\* The row adminUpdateUserWallet writes.
UpdatedWalletRow(old, w) ==
    [old EXCEPT !.wallet_address = w, !.is_wallet_verified = TRUE,
                !.wallet_verified_at = Now]

\* .from("profiles").update({...}).eq("id", profileId): the row is written
\* and the trigger logs the change, or the store answers with an error
\* (always so when another row holds the wallet).  priorWallet is history:
\* the wallet the row held immediately before this write.
UpdUpdate(c) ==
    /\ calls[c].pc = "upd_update"
    /\ LET pid == calls[c].profileId
           w == calls[c].normalizedWallet
           old == profiles[RowIndex(pid)]
           new == UpdatedWalletRow(old, w)
       IN \/ /\ ~WalletUniqueViolation(w, pid)
             /\ profiles' = UpdateProfileRow(pid, new)
             /\ audit' = audit \o log_wallet_change(old, new, calls[c].caller)
             /\ calls' = [calls EXCEPT ![c] =
                    [calls[c] EXCEPT !.pc = "upd_audit",
                                     !.priorWallet = old.wallet_address,
                                     !.wrote = @ \cup {"profile"},
                                     !.racedWith = PendingWriters(c, w)]]
          \/ /\ calls' = [calls EXCEPT ![c] =
                    [Finish(c, Result(FALSE, ErrUpdateWallet, NULL))
                        EXCEPT !.wrote = @ \cup Rejected(w, pid),
                               !.racedWith = PendingWriters(c, w)]]
             /\ UNCHANGED <<profiles, audit>>
    /\ UNCHANGED <<identities, nextUser>>

\* Log the change: the row is stored or the store rejects it; the outcome
\* is not looked at.  Success is returned.
UpdAudit(c) ==
    /\ calls[c].pc = "upd_audit"
    /\ \/ /\ audit' = Append(audit,
                 AuditRow(calls[c].profileId, "wallet_changed", calls[c].oldWallet,
                          calls[c].normalizedWallet, calls[c].caller))
          /\ calls' = [calls EXCEPT ![c] =
                 [Finish(c, Result(TRUE, NoError, NULL))
                     EXCEPT !.wrote = @ \cup {"audit"}]]
       \/ /\ UNCHANGED audit
          /\ calls' = [calls EXCEPT ![c] = Finish(c, Result(TRUE, NoError, NULL))]
    /\ UNCHANGED <<profiles, identities, nextUser>>

\* ------------------------------------------------------------------ setVerified
\* Mutant: unverifying leaves the timestamp in place.
VerifiedRowKeepsTimestamp(old, verify) ==
    [old EXCEPT !.is_wallet_verified = verify, !.wallet_verified_at = Now]

\* The row adminVerifyWallet writes.
VerifiedRow(old, verify) ==
    [old EXCEPT !.is_wallet_verified = verify,
                !.wallet_verified_at = IF verify THEN Now ELSE NULL]

\* adminVerifyWallet(profileId, verify): one UPDATE ... WHERE id = profileId.
\* An update that matches no row is no error.
adminVerifyWallet(c) ==
    \E caller \in Callers, pid \in ProfileTargets, verify \in Booleans :
        /\ CanStart(c)
        /\ LET req == [calls[c] EXCEPT !.op = "setVerified", !.caller = caller,
                           !.profileId = pid, !.verify = verify]
               ok == [req EXCEPT !.pc = "done", !.result = Result(TRUE, NoError, NULL)]
           IN \/ /\ RowIndex(pid) # 0
                 /\ LET old == profiles[RowIndex(pid)]
                        new == VerifiedRow(old, verify)
                    IN /\ profiles' = UpdateProfileRow(pid, new)
                       /\ audit' = audit \o log_wallet_change(old, new, caller)
                 /\ calls' = [calls EXCEPT ![c] = [ok EXCEPT !.wrote = {"profile"}]]
              \/ /\ RowIndex(pid) = 0
                 /\ calls' = [calls EXCEPT ![c] = ok]
                 /\ UNCHANGED <<profiles, audit>>
              \/ /\ calls' = [calls EXCEPT ![c] =
                        [req EXCEPT !.pc = "done",
                                    !.result = Result(FALSE, ErrVerifyWallet, NULL)]]
                 /\ UNCHANGED <<profiles, audit>>
        /\ UNCHANGED <<identities, nextUser>>

\* ------------------------------------------------------------------ authorize
AuthResponse(ok, pid, name, role, err) ==
    [isAuthorized |-> ok, profileId |-> pid, fullName |-> name,
     roleCategory |-> role, error |-> err]

\* Mutant: is_authorized does not look at is_wallet_verified.
verify_wallet_authorization_unverified(p_wallet_address, p_role_category) ==
    { [is_authorized |-> /\ p_wallet_address = r.wallet_address
                         /\ r.role_category = p_role_category,
       profile_id |-> r.id, full_name |-> r.full_name,
       role_category |-> r.role_category] :
      r \in {q \in Rows : /\ q.wallet_address # NULL
                          /\ ILike(q.wallet_address, p_wallet_address)} }

\* public.verify_wallet_authorization(p_wallet_address, p_role_category):
\* the rows the query may return under LIMIT 1 (none when the set is empty).
verify_wallet_authorization(p_wallet_address, p_role_category) ==
    { [is_authorized |-> /\ p_wallet_address = r.wallet_address
                         /\ r.role_category = p_role_category
                         /\ r.is_wallet_verified,
       profile_id |-> r.id, full_name |-> r.full_name,
       role_category |-> r.role_category] :
      r \in {q \in Rows : /\ q.wallet_address # NULL
                          /\ ILike(q.wallet_address, p_wallet_address)} }

\* verifyWalletAuthorization(walletAddress, roleCategory): the responses it
\* may return when the rpc answers.
verifyWalletAuthorization(walletAddress, roleCategory) ==
    IF walletAddress = <<>> \/ roleCategory = ""
    THEN {AuthResponse(FALSE, NULL, "", "", ErrMissingInput)}
    ELSE LET data == verify_wallet_authorization(toLowerCase(walletAddress), roleCategory)
         IN IF data = {}
            THEN {AuthResponse(FALSE, NULL, "", "", ErrWalletNotFound)}
            ELSE {AuthResponse(d.is_authorized, d.profile_id, d.full_name,
                               d.role_category, NoError) : d \in data}

\* A login attempt; the rpc answers or fails.
Authorize(c) ==
    \E wallet \in LoginWallets, role \in LoginRoles :
        /\ CanStart(c)
        /\ LET req == [calls[c] EXCEPT !.op = "authorize", !.pc = "done",
                           !.walletAddress = wallet, !.roleCategory = role]
           IN \/ \E resp \in verifyWalletAuthorization(wallet, role) :
                    calls' = [calls EXCEPT ![c] = [req EXCEPT !.result = resp]]
              \/ /\ wallet # <<>> /\ role # ""
                 /\ calls' = [calls EXCEPT ![c] =
                        [req EXCEPT !.result = AuthResponse(FALSE, NULL, "", "", ErrRpc)]]
        /\ UNCHANGED <<profiles, identities, audit, nextUser>>

\* ------------------------------------------------------------------ reads
\* Policy admin_view_wallet_audit: the rows of wallet_audit_log are visible
\* to a session whose profile has role_category 'admin'; uid is auth.uid().
admin_view_wallet_audit(uid) ==
    \E r \in Rows : r.user_id = uid /\ r.role_category = "admin"

\* Positions of profile pid's rows in the ledger.
AuditOf(pid) == {i \in 1..Len(audit) : audit[i].profile_id = pid}

\* .select("*, changed_by:profiles(full_name)"): changed_by is replaced by
\* the joined profile, the one whose id it holds (none when there is none).
AuditView(row) ==
    [row EXCEPT !.changed_by = {r.full_name : r \in {q \in Rows : q.id = row.changed_by}}]

\* .order("changed_at", { ascending: false }): the orders in which the store
\* may return the rows at positions S; rows with equal changed_at come in
\* either order.
NewestFirst(S) ==
    {[k \in 1..Cardinality(S) |-> AuditView(audit[f[k]])] :
        f \in {g \in [1..Cardinality(S) -> S] :
                  /\ \A a, b \in 1..Cardinality(S) : a # b => g[a] # g[b]
                  /\ \A a, b \in 1..Cardinality(S) :
                        a < b => audit[g[a]].changed_at >= audit[g[b]].changed_at}}

\* getWalletAuditLog(profileId), called by handleViewAuditLog: the visible
\* rows of the profile, newest first; [] when the query fails.
getWalletAuditLog(c) ==
    \E caller \in Callers, pid \in ProfileTargets :
        /\ CanStart(c)
        /\ LET req == [calls[c] EXCEPT !.op = "auditHistory", !.pc = "done",
                           !.caller = caller, !.profileId = pid]
               visible == IF admin_view_wallet_audit(caller) THEN AuditOf(pid) ELSE {}
           IN \/ \E entries \in NewestFirst(visible) :
                    calls' = [calls EXCEPT ![c] =
                        [req EXCEPT !.result = [entries |-> entries, failed |-> FALSE]]]
              \/ calls' = [calls EXCEPT ![c] =
                     [req EXCEPT !.result = [entries |-> <<>>, failed |-> TRUE]]]
        /\ UNCHANGED <<profiles, identities, audit, nextUser>>

\* Wallet strings typed into the console's search box.
SearchWallets == {Addr("A", "B"), WalletCD}

\* .select("id, email, full_name, role_category, wallet_address,
\* is_wallet_verified")
UserSearchView(r) ==
    [id |-> r.id, email |-> r.email, full_name |-> r.full_name,
     role_category |-> r.role_category, wallet_address |-> r.wallet_address,
     is_wallet_verified |-> r.is_wallet_verified]

\* adminSearchUserByWallet(walletAddress): the profile holding the
\* lower-cased wallet, or null (also when the query fails).
adminSearchUserByWallet(c) ==
    \E wallet \in SearchWallets :
        /\ CanStart(c)
        /\ LET req == [calls[c] EXCEPT !.op = "findByWallet", !.pc = "done",
                           !.walletAddress = wallet]
               user == {UserSearchView(r) : r \in ProfileWithWallet(toLowerCase(wallet))}
           IN \/ calls' = [calls EXCEPT ![c] =
                     [req EXCEPT !.result = [user |-> user, failed |-> FALSE]]]
              \/ calls' = [calls EXCEPT ![c] =
                     [req EXCEPT !.result = [user |-> {}, failed |-> TRUE]]]
        /\ UNCHANGED <<profiles, identities, audit, nextUser>>

\* .select("id, email, full_name, role_category, wallet_address,
\* is_wallet_verified, wallet_verified_at")
UserListView(r) ==
    [id |-> r.id, email |-> r.email, full_name |-> r.full_name,
     role_category |-> r.role_category, wallet_address |-> r.wallet_address,
     is_wallet_verified |-> r.is_wallet_verified,
     wallet_verified_at |-> r.wallet_verified_at]

\* Mutant: listing the users stamps the ledger with the access.
adminGetAllUsersRecorded(c) ==
    /\ CanStart(c)
    /\ calls' = [calls EXCEPT ![c] =
           [calls[c] EXCEPT !.op = "listProfiles", !.pc = "done",
                            !.result = [users |-> <<>>, failed |-> FALSE]]]
    /\ audit' = Append(audit, AuditRow(ProfileId(1), "role_assigned", NULL, NULL, NULL))
    /\ UNCHANGED <<profiles, identities, nextUser>>

\* adminGetAllUsersWithWallets(): all profiles, newest created first; [] when
\* the query fails.
adminGetAllUsersWithWallets(c) ==
    /\ CanStart(c)
    /\ LET req == [calls[c] EXCEPT !.op = "listProfiles", !.pc = "done"]
           users == [k \in 1..Len(profiles) |->
                        UserListView(profiles[Len(profiles) + 1 - k])]
       IN \/ calls' = [calls EXCEPT ![c] =
                 [req EXCEPT !.result = [users |-> users, failed |-> FALSE]]]
          \/ calls' = [calls EXCEPT ![c] =
                 [req EXCEPT !.result = [users |-> <<>>, failed |-> TRUE]]]
    /\ UNCHANGED <<profiles, identities, audit, nextUser>>

\* ------------------------------------------------------------------ ledger insert
\* Actions a caller of logWalletAction records besides those the wallet
\* service and the trigger record themselves.
LoggedActions == {"role_assigned"}

\* Mutant: the insert replaces the profile's earlier rows.
UpsertAuditRow(row) ==
    SelectSeq(audit, LAMBDA r : r.profile_id # row.profile_id) \o <<row>>

\* .from("wallet_audit_log").insert({...}): the ledger with the row added.
InsertAuditRow(row) == Append(audit, row)

\* logWalletAction(profileId, action, oldValue, newValue) without old and
\* new value: the row is stored with changed_by null and true is returned,
\* or the store rejects it (always so when profile_id references no profile)
\* and false is returned.
logWalletAction(c) ==
    \E pid \in ProfileTargets, action \in LoggedActions :
        /\ CanStart(c)
        /\ LET req == [calls[c] EXCEPT !.op = "logAction", !.pc = "done",
                           !.profileId = pid]
           IN \/ /\ RowIndex(pid) # 0
                 /\ audit' = InsertAuditRow(AuditRow(pid, action, NULL, NULL, NULL))
                 /\ calls' = [calls EXCEPT ![c] =
                        [req EXCEPT !.wrote = {"audit"}, !.result = [ok |-> TRUE]]]
              \/ /\ UNCHANGED audit
                 /\ calls' = [calls EXCEPT ![c] = [req EXCEPT !.result = [ok |-> FALSE]]]
        /\ UNCHANGED <<profiles, identities, nextUser>>

\* An awaited call throws; the service's catch returns the failure.
ServicePcs ==
    {"reg_getUser", "reg_checkAdmin", "reg_wallet", "reg_email",
     "reg_createUser", "reg_insert", "reg_cleanup", "reg_audit",
     "upd_getUser", "upd_checkAdmin", "upd_load", "upd_wallet",
     "upd_update", "upd_audit"}

Throw(c) ==
    /\ calls[c].pc \in ServicePcs
    /\ calls' = [calls EXCEPT ![c] = Finish(c, Result(FALSE, ErrException, NULL))]
    /\ UNCHANGED <<profiles, identities, audit, nextUser>>

Next ==
    \E c \in CallIds :
        \/ handleRegisterUser(c)
        \/ RegGetUser(c)
        \/ RegCheckAdmin(c)
        \/ RegCheckWallet(c)
        \/ RegCheckEmail(c)
        \/ RegCreateUser(c)
        \/ RegInsertProfile(c)
        \/ RegCleanup(c)
        \/ RegAudit(c)
        \/ handleUpdateWallet(c)
        \/ UpdGetUser(c)
        \/ UpdCheckAdmin(c)
        \/ UpdLoadProfile(c)
        \/ UpdCheckWallet(c)
        \/ UpdUpdate(c)
        \/ UpdAudit(c)
        \/ adminVerifyWallet(c)
        \/ Authorize(c)
        \/ getWalletAuditLog(c)
        \/ adminSearchUserByWallet(c)
        \/ adminGetAllUsersWithWallets(c)
        \/ logWalletAction(c)
        \/ Throw(c)

Spec == Init /\ [][Next]_vars

\* ------------------------------------------------------------------ properties
Done(c) == calls[c].pc = "done"
IdentityIds == {u.id : u \in identities}
IsMutation(c) == calls[c].op \in {"register", "updateWallet"}
AuthErrors == {ErrNotAuthenticated, ErrUnauthorizedRegister, ErrUnauthorizedUpdate}

\* C1: wallet uniqueness - in every reachable state, under any interleaving of
\* register and updateWallet requests, no two distinct profiles hold the same
\* non-null wallet address.
C1_WalletUnique ==
    \A i, j \in 1..Len(profiles) :
        (i # j /\ profiles[i].wallet_address # NULL)
            => profiles[i].wallet_address # profiles[j].wallet_address

\* A request has passed its existence check, another request has since
\* stored the same wallet, and the first is about to attempt its write.
C1_Witness ==
    \E c \in CallIds :
        /\ calls[c].pc \in {"reg_insert", "upd_update"}
        /\ \E d \in CallIds \ {c} :
              /\ IsMutation(d)
              /\ "profile" \in calls[d].wrote
              /\ calls[d].normalizedWallet = calls[c].normalizedWallet
              /\ \E r \in Rows : /\ r.wallet_address = calls[c].normalizedWallet
                                /\ r.id \in {calls[d].newProfile, calls[d].profileId}
                                /\ r.id # calls[c].profileId

C3_AuthorizationCorrect ==
    \A w \in LoginWallets, role \in LoginRoles :
        \A resp \in verifyWalletAuthorization(w, role) :
            resp.isAuthorized <=>
                \E r \in Rows : /\ r.wallet_address = toLowerCase(w)
                               /\ r.role_category = role
                               /\ r.is_wallet_verified

\* A registration with an upper-case wallet has succeeded, a later login with
\* the lower-cased wallet and the registered role was authorized, and a login
\* with another role would not be.
C3_Witness ==
    \E c, d \in CallIds :
        /\ calls[c].op = "register" /\ Done(c) /\ calls[c].result.success
        /\ calls[c].walletAddress # calls[c].normalizedWallet
        /\ calls[d].op = "authorize" /\ Done(d)
        /\ calls[d].walletAddress = calls[c].normalizedWallet
        /\ calls[d].roleCategory = calls[c].roleCategory
        /\ calls[d].result.isAuthorized
        /\ calls[d].result.profileId = calls[c].result.profileId
        /\ \A resp \in verifyWalletAuthorization(calls[d].walletAddress, "lawyer") :
              ~resp.isAuthorized

\* C4: verification invariant - in every reachable state every profile has
\* wallet_verified_at non-null exactly when is_wallet_verified is true.
C4_VerifiedIffTimestamp ==
    \A r \in Rows : (r.wallet_verified_at # NULL) <=> r.is_wallet_verified

\* setVerified has switched a verified profile to unverified.
C4_Witness ==
    \E c \in CallIds :
        /\ calls[c].op = "setVerified" /\ Done(c) /\ calls[c].result.success
        /\ ~calls[c].verify
        /\ "profile" \in calls[c].wrote
        /\ \E i \in 1..Len(audit) :
              /\ audit[i].profile_id = calls[c].profileId
              /\ audit[i].action = "wallet_unverified"
        /\ \E r \in Rows : r.id = calls[c].profileId /\ ~r.is_wallet_verified

\* C5: compensation - when register's identity creation succeeded, its
\* profile insert failed and the compensating deletion succeeded, the
\* identity no longer exists when register has returned and no profile row
\* references it.
C5_Compensation ==
    \A c \in CallIds :
        (calls[c].op = "register" /\ Done(c) /\ "deleted" \in calls[c].wrote)
            => /\ calls[c].authUser \notin IdentityIds
               /\ \A r \in Rows : r.user_id # calls[c].authUser

\* A registration created its identity, failed to insert the profile and
\* returned after the deletion was carried out.
C5_Witness ==
    \E c \in CallIds :
        /\ calls[c].op = "register" /\ Done(c)
        /\ {"identity", "deleted"} \subseteq calls[c].wrote
        /\ calls[c].authUser # NULL
        /\ calls[c].result.error = ErrCreateProfile

\* C6: register failure atomicity - whenever register has returned a failure,
\* whatever the path, the identity it may have created does not exist, it
\* has left no profile row and no audit row.
C6_RegisterFailureAtomic ==
    \A c \in CallIds :
        (calls[c].op = "register" /\ Done(c) /\ ~calls[c].result.success)
            => /\ calls[c].authUser \notin IdentityIds
               /\ calls[c].newProfile = NULL
               /\ \A r \in Rows : r.user_id # calls[c].authUser
               /\ "audit" \notin calls[c].wrote

\* C7: register success effect - whenever register has returned success with
\* a profile id, exactly one profile has that id and holds the lower-cased
\* wallet, the identity it created exists, and exactly one audit row for the
\* profile has action wallet_added and new_value the lower-cased wallet.
C7_RegisterSuccessEffect ==
    \A c \in CallIds :
        (calls[c].op = "register" /\ Done(c) /\ calls[c].result.success)
            => /\ Cardinality({i \in 1..Len(profiles) :
                      /\ profiles[i].id = calls[c].result.profileId
                      /\ profiles[i].user_id = calls[c].authUser
                      /\ profiles[i].wallet_address = toLowerCase(calls[c].walletAddress)}) = 1
               /\ calls[c].authUser \in IdentityIds
               /\ Cardinality({i \in 1..Len(audit) :
                      /\ audit[i].profile_id = calls[c].result.profileId
                      /\ audit[i].action = "wallet_added"
                      /\ audit[i].new_value = toLowerCase(calls[c].walletAddress)}) = 1

\* Request d raced request c for the same wallet: both had passed their
\* existence checks when c, the first of the two, attempted its write.
Raced(c, d) ==
    /\ c # d
    /\ IsMutation(c) /\ IsMutation(d)
    /\ d \in calls[c].racedWith
    /\ Done(c) /\ Done(d)

SameTarget(c, d) ==
    /\ calls[c].op = "updateWallet" /\ calls[d].op = "updateWallet"
    /\ calls[c].profileId = calls[d].profileId

C9_RaceLoserWalletTaken ==
    \A c \in CallIds :
        (IsMutation(c) /\ Done(c) /\ "uniqueViolation" \in calls[c].wrote
            /\ calls[c].result.error # ErrException)
            => calls[c].result.error \in {ErrWalletRegistered, ErrWalletInUse}

\* The caller of request c is not privileged: no session, no profile, or a
\* profile whose role is neither admin nor judiciary.
Unprivileged(c) ==
    \/ calls[c].caller = NoUser
    \/ ~\E r \in Rows : /\ r.user_id = calls[c].caller
                        /\ r.role_category \in {"admin", "judiciary"}

\* C10: role gate - a register or updateWallet request of an unprivileged
\* caller never gets past the gate: it mutates nothing, and once the service
\* has returned, the result is a failure, which is the authentication or
\* authorization failure unless the gate's own read threw.
C10_RoleGate ==
    \A c \in CallIds :
        (IsMutation(c) /\ Unprivileged(c))
            => /\ calls[c].wrote = {}
               /\ calls[c].pc \in {"reg_getUser", "reg_checkAdmin",
                                   "upd_getUser", "upd_checkAdmin", "done"}
               /\ (Done(c) /\ calls[c].result.error # ErrBadFormat)
                     => /\ ~calls[c].result.success
                        /\ calls[c].result.error \in AuthErrors \cup {ErrException}

\* Requests of a caller without a session, of a caller without a profile and
\* of a lawyer have been turned away at the gate.
C10_Witness ==
    \E c, d \in CallIds :
        /\ c # d
        /\ IsMutation(c) /\ Done(c) /\ calls[c].caller = NoUser
        /\ calls[c].result.error = ErrNotAuthenticated
        /\ IsMutation(d) /\ Done(d) /\ calls[d].caller \in {LawyerUser, GuestUser}
        /\ calls[d].result.error \in {ErrUnauthorizedRegister, ErrUnauthorizedUpdate}

\* The profile a request writes to.
TargetOf(d) ==
    IF calls[d].op = "register" THEN calls[d].newProfile ELSE calls[d].profileId

\* No request other than c has written to profile pid.
NoOtherWriter(c, pid) ==
    \A d \in CallIds \ {c} :
        ~("profile" \in calls[d].wrote /\ TargetOf(d) = pid)

\* C11: role gate on setVerified - a setVerified request of a caller whose
\* role is neither admin nor judiciary returns a failure and writes nothing.
C11_VerifyRoleGate ==
    \A c \in CallIds :
        (calls[c].op = "setVerified" /\ Done(c) /\ Unprivileged(c))
            => /\ ~calls[c].result.success
               /\ calls[c].wrote = {}

\* C12: setVerified on a missing profile - a setVerified request whose
\* profile id matches no row returns a failure.
C12_VerifyMissingProfile ==
    \A c \in CallIds :
        (calls[c].op = "setVerified" /\ Done(c) /\ RowIndex(calls[c].profileId) = 0)
            => ~calls[c].result.success

\* C13: unverify revokes login - once setVerified(p, false) has succeeded
\* and for as long as p stays unverified (no later setVerified(p, true) or
\* updateWallet on p), authorize with p's wallet is not authorized, for p's
\* role and every other role.
C13_UnverifyRevokes ==
    \A c \in CallIds :
        (calls[c].op = "setVerified" /\ Done(c) /\ calls[c].result.success
            /\ ~calls[c].verify /\ "profile" \in calls[c].wrote)
            => \A r \in Rows :
                  (r.id = calls[c].profileId /\ ~r.is_wallet_verified
                      /\ r.wallet_address # NULL)
                      => \A role \in LoginRoles \cup {r.role_category} :
                            \A resp \in verifyWalletAuthorization(r.wallet_address, role) :
                                ~resp.isAuthorized

\* setVerified(p, false) has succeeded on a profile that holds a wallet, and
\* a later login with that wallet and the profile's role found the profile
\* and was denied.
C13_Witness ==
    \E c, d \in CallIds :
        /\ calls[c].op = "setVerified" /\ Done(c) /\ calls[c].result.success
        /\ ~calls[c].verify /\ "profile" \in calls[c].wrote
        /\ calls[d].op = "authorize" /\ Done(d)
        /\ \E r \in Rows :
              /\ r.id = calls[c].profileId
              /\ ~r.is_wallet_verified
              /\ r.wallet_address = calls[d].walletAddress
              /\ r.role_category = calls[d].roleCategory
              /\ calls[d].result.profileId = r.id
              /\ ~calls[d].result.isAuthorized

WalletChangedRows(pid, a, b) ==
    {i \in 1..Len(audit) :
        /\ audit[i].profile_id = pid
        /\ audit[i].action = "wallet_changed"
        /\ audit[i].old_value = a
        /\ audit[i].new_value = b}

\* C15: exactly-once audit of a rebind - a successful updateWallet that
\* changed a profile's wallet from a to b (a # b) has added exactly one
\* wallet_changed row for the profile with old_value a and new_value b,
\* the service's insert and the trigger's counted together.
C15_RebindAuditedOnce ==
    \A c \in CallIds :
        (/\ calls[c].op = "updateWallet" /\ Done(c) /\ calls[c].result.success
         /\ calls[c].oldWallet # calls[c].normalizedWallet
         /\ NoOtherWriter(c, calls[c].profileId))
            => Cardinality(WalletChangedRows(calls[c].profileId, calls[c].oldWallet,
                                             calls[c].normalizedWallet)) = 1

\* C16: retry idempotence of updateWallet - an updateWallet(p, w) issued
\* when p already holds the lower-cased w has appended no audit row when it
\* returns success.
C16_RetryAppendsNothing ==
    \A c \in CallIds :
        (/\ calls[c].op = "updateWallet" /\ Done(c) /\ calls[c].result.success
         /\ calls[c].oldWallet = calls[c].normalizedWallet
         /\ NoOtherWriter(c, calls[c].profileId))
            => /\ "audit" \notin calls[c].wrote
               /\ \A i \in 1..Len(audit) : audit[i].profile_id # calls[c].profileId

\* Request c is a setVerified that succeeds on an existing row in this step.
VerifyStep(c) ==
    /\ calls[c].pc = "idle"
    /\ calls'[c].pc = "done"
    /\ calls'[c].op = "setVerified"
    /\ calls'[c].result.success
    /\ RowIndex(calls'[c].profileId) # 0

\* C17: audit of verification toggles - a successful setVerified(p, v) that
\* changes is_wallet_verified appends exactly one row for p, with action
\* wallet_verified (v true) or wallet_unverified (v false), old_value the
\* text of the previous flag and new_value the text of v; a setVerified
\* that leaves the flag as it is appends nothing.
C17_VerifyToggleAudited ==
    [][\A c \in CallIds :
          VerifyStep(c) =>
              LET pid == calls'[c].profileId
                  v == calls'[c].verify
                  before == profiles[RowIndex(pid)].is_wallet_verified
              IN IF before = v
                 THEN audit' = audit
                 ELSE /\ Len(audit') = Len(audit) + 1
                      /\ SubSeq(audit', 1, Len(audit)) = audit
                      /\ audit'[Len(audit')].profile_id = pid
                      /\ audit'[Len(audit')].action =
                             (IF v THEN "wallet_verified" ELSE "wallet_unverified")
                      /\ audit'[Len(audit')].old_value = BoolText(before)
                      /\ audit'[Len(audit')].new_value = BoolText(v)]_vars

\* One setVerified switched a verified profile to unverified and logged it;
\* a second setVerified(false) on the same profile logged nothing.
C17_Witness ==
    \E c, d \in CallIds :
        /\ c # d
        /\ calls[c].op = "setVerified" /\ calls[d].op = "setVerified"
        /\ Done(c) /\ Done(d)
        /\ calls[c].result.success /\ calls[d].result.success
        /\ calls[c].profileId = calls[d].profileId
        /\ ~calls[c].verify /\ ~calls[d].verify
        /\ "profile" \in calls[c].wrote /\ "profile" \in calls[d].wrote
        /\ Len(audit) = 1
        /\ audit[1].action = "wallet_unverified"
        /\ audit[1].old_value = BoolText(TRUE)
        /\ audit[1].new_value = BoolText(FALSE)

\* C18: no disclosure for unmatched wallets - for every wallet input w and
\* role, a response of authorize carries a profile id, name or role only
\* when some profile's stored wallet equals the lower-cased w.
C18_NoDisclosure ==
    \A w \in LoginWallets, role \in LoginRoles :
        \A resp \in verifyWalletAuthorization(w, role) :
            (resp.profileId # NULL \/ resp.fullName # "" \/ resp.roleCategory # "")
                => \E r \in Rows : r.wallet_address = toLowerCase(w)

LowerHexDigits == {"0", "1", "a", "b", "c", "d", "e", "f"}

\* The wallet is in canonical form: 0x and HexLen lower-case hex digits.
IsCanonical(w) ==
    /\ Len(w) = HexLen + 2
    /\ w[1] = "0" /\ w[2] = "x"
    /\ \A i \in 3..Len(w) : w[i] \in LowerHexDigits

\* The wallet input is 0x and HexLen hex digits of either case.
IsWellFormed(w) ==
    /\ Len(w) = HexLen + 2
    /\ w[1] = "0" /\ w[2] = "x"
    /\ \A i \in 3..Len(w) : LowerChar(w[i]) \in LowerHexDigits

C20_CompensationFailureFlagged ==
    \A c \in CallIds :
        (calls[c].op = "register" /\ Done(c) /\ "deleteFailed" \in calls[c].wrote)
            => calls[c].result # Result(FALSE, ErrCreateProfile, NULL)

\* Request c's awaited call at position pc is answered in this step (it
\* does not throw).
Answered(c, pc) ==
    /\ calls[c].pc = pc
    /\ calls'[c].pc # pc
    /\ calls'[c].result.error # ErrException

\* Some profile with another email than e holds wallet input w, compared
\* without regard to case.
HeldByOtherEmail(w, e) ==
    \E r \in Rows : /\ r.wallet_address # NULL
                    /\ toLowerCase(r.wallet_address) = toLowerCase(w)
                    /\ r.email # e

ServiceActions ==
    {"wallet_added", "wallet_changed", "wallet_verified", "wallet_unverified"}

\* C23: audit attribution - every audit row that a register, updateWallet or
\* setVerified request of an authenticated admin or judiciary caller
\* produced has changed_by equal to the id of the caller's profile.  (The
\* rows of the request's target are the request's when no other request
\* wrote to the target.)
C23_AuditAttribution ==
    \A c \in CallIds :
        (/\ calls[c].op \in {"register", "updateWallet", "setVerified"}
         /\ ~Unprivileged(c)
         /\ NoOtherWriter(c, TargetOf(c)))
            => \A i \in AuditOf(TargetOf(c)) :
                  audit[i].action \in ServiceActions
                      => \E r \in Rows : /\ r.user_id = calls[c].caller
                                        /\ audit[i].changed_by = r.id

\* The fields of an audit row that a read returns as they are stored.
EntryKey(e) == <<e.profile_id, e.action, e.old_value, e.new_value, e.changed_at>>

\* C24: audit read access - a getWalletAuditLog that the store answers
\* returns all rows of the profile to a caller whose role is admin or
\* judiciary, and no row to any other caller.
C24_AuditReadAccess ==
    [][\A c \in CallIds :
          (/\ calls[c].pc = "idle"
           /\ calls'[c].op = "auditHistory"
           /\ ~calls'[c].result.failed)
              => LET entries == calls'[c].result.entries
                     mine == AuditOf(calls'[c].profileId)
                 IN IF \E r \in Rows : /\ r.user_id = calls'[c].caller
                                       /\ r.role_category \in {"admin", "judiciary"}
                    THEN /\ Len(entries) = Cardinality(mine)
                         /\ {EntryKey(entries[k]) : k \in 1..Len(entries)}
                               = {EntryKey(audit[i]) : i \in mine}
                    ELSE entries = <<>>]_vars

\* C25: append-only ledger - no step of any request removes an audit row or
\* changes a field of one: the ledger after the step starts with the ledger
\* before it.
C25_AppendOnly ==
    [][/\ Len(audit') >= Len(audit)
       /\ SubSeq(audit', 1, Len(audit)) = audit]_vars

\* A row logged by the trigger is still the first row of the ledger after
\* logWalletAction has stored a later row for the same profile.
C25_Witness ==
    \E c, d \in CallIds :
        /\ calls[c].op = "setVerified" /\ "profile" \in calls[c].wrote
        /\ calls[d].op = "logAction" /\ "audit" \in calls[d].wrote
        /\ calls[d].profileId = calls[c].profileId
        /\ Len(audit) = 2
        /\ audit[1].action = "wallet_unverified"
        /\ audit[1].changed_at = 1
        /\ audit[2].action = "role_assigned"
        /\ audit[2].profile_id = audit[1].profile_id

\* authorize, findByWallet, listProfiles and auditHistory.
ReadOps == {"authorize", "findByWallet", "listProfiles", "auditHistory"}

\* C26: reads are pure - a call of verifyWalletAuthorization,
\* adminSearchUserByWallet, adminGetAllUsersWithWallets or getWalletAuditLog,
\* whatever its inputs and its result, leaves every profile, every identity
\* and every audit row as it was.
C26_ReadsArePure ==
    [][\A c \in CallIds :
          (calls[c].pc = "idle" /\ calls'[c].op \in ReadOps)
              => /\ profiles' = profiles
                 /\ identities' = identities
                 /\ audit' = audit
                 /\ nextUser' = nextUser]_vars

\* A login was authorized and the list of users was read, and the store is
\* as it was initially.
C26_Witness ==
    \E c, d \in CallIds :
        /\ calls[c].op = "authorize" /\ Done(c) /\ calls[c].result.isAuthorized
        /\ calls[d].op = "listProfiles" /\ Done(d)
        /\ Len(calls[d].result.users) = 2
        /\ Len(profiles) = 2
        /\ audit = <<>>

\* Positions of the rows a step appends to the ledger.
Appended == (Len(audit) + 1)..Len(audit')

\* C27: audit old_value under concurrent rebinds - every wallet_changed row
\* has old_value equal to the wallet the profile held immediately before
\* the update the row records: the rows the trigger appends with an update,
\* and the row updateWallet appends after its own update (priorWallet is
\* the wallet the profile held before that update).
C27_AuditOldValue ==
    [][\A c \in CallIds :
          /\ (calls[c].pc = "upd_update" /\ calls'[c].pc = "upd_audit")
                => \A i \in Appended :
                      audit'[i].action = "wallet_changed"
                          => audit'[i].old_value =
                                 profiles[RowIndex(calls[c].profileId)].wallet_address
          /\ (calls[c].pc = "upd_audit" /\ calls'[c].pc = "done")
                => \A i \in Appended :
                      audit'[i].action = "wallet_changed"
                          => audit'[i].old_value = calls[c].priorWallet]_vars

\* C28: no orphaned identity - when a register returns from a step after
\* the creation of its identity, and its compensating deletion has not
\* failed (it was not refused and did not throw), the identity, if it still
\* exists, is referenced by exactly one profile.
C28_NoOrphanIdentity ==
    [][\A c \in CallIds :
          (/\ calls[c].op = "register"
           /\ calls[c].pc \in {"reg_insert", "reg_cleanup", "reg_audit"}
           /\ calls'[c].pc = "done"
           /\ "deleteFailed" \notin calls'[c].wrote
           /\ ~(calls[c].pc = "reg_cleanup" /\ calls'[c].result.error = ErrException))
              => (calls[c].authUser \in {u.id : u \in identities'}
                    => Cardinality({i \in 1..Len(profiles') :
                           profiles'[i].user_id = calls[c].authUser}) = 1)]_vars

AppendedFlagRows(pid) ==
    {i \in Appended : /\ audit'[i].profile_id = pid
                      /\ audit'[i].action \in {"wallet_verified", "wallet_unverified"}}

\* C30: rebind of an unverified wallet is fully audited - the update of a
\* successful updateWallet appends, for a profile that was unverified,
\* exactly one wallet_verified row with old_value false and new_value true,
\* next to the wallet_changed row when the wallet changes, and no
\* verification row for a profile that was verified; the rest of the call
\* appends no verification row.
C30_RebindVerifyAudited ==
    [][\A c \in CallIds :
          /\ (calls[c].pc = "upd_update" /\ calls'[c].pc = "upd_audit")
                => LET pid == calls[c].profileId
                       old == profiles[RowIndex(pid)]
                       flags == AppendedFlagRows(pid)
                   IN /\ IF old.is_wallet_verified
                         THEN flags = {}
                         ELSE /\ Cardinality(flags) = 1
                              /\ \A i \in flags :
                                    /\ audit'[i].action = "wallet_verified"
                                    /\ audit'[i].old_value = BoolText(FALSE)
                                    /\ audit'[i].new_value = BoolText(TRUE)
                      /\ old.wallet_address # calls[c].normalizedWallet
                            => \E i \in Appended :
                                  /\ audit'[i].profile_id = pid
                                  /\ audit'[i].action = "wallet_changed"
                                  /\ audit'[i].new_value = calls[c].normalizedWallet
          /\ (calls[c].pc = "upd_audit" /\ calls'[c].pc = "done")
                => AppendedFlagRows(calls[c].profileId) = {}]_vars

\* One updateWallet has succeeded on a profile that was unverified and the
\* ledger holds its wallet_verified row (false to true); another has
\* succeeded on a profile that was verified and the ledger holds no
\* verification row for it.
C30_Witness ==
    \E c, d \in CallIds :
        /\ calls[c].op = "updateWallet" /\ Done(c) /\ calls[c].result.success
        /\ calls[d].op = "updateWallet" /\ Done(d) /\ calls[d].result.success
        /\ calls[c].profileId # calls[d].profileId
        /\ Cardinality({i \in AuditOf(calls[c].profileId) :
               /\ audit[i].action = "wallet_verified"
               /\ audit[i].old_value = BoolText(FALSE)
               /\ audit[i].new_value = BoolText(TRUE)}) = 1
        /\ \E i \in AuditOf(calls[c].profileId) : audit[i].action = "wallet_changed"
        /\ calls[d].priorWallet # calls[d].normalizedWallet
        /\ \A i \in AuditOf(calls[d].profileId) : audit[i].action = "wallet_changed"

\* Request c writes its update to the profile in this step.
UpdateStep(c) ==
    /\ calls[c].pc = "upd_update"
    /\ calls'[c].pc = "upd_audit"

\* C31: frame of mutations - the write of a successful updateWallet(p, ...)
\* or setVerified(p, ...) changes no field of a profile other than p, adds
\* and removes no profile, and leaves p's id, user_id, email, full_name and
\* role_category as they were; setVerified leaves p's wallet_address as it
\* was too; the other steps of updateWallet change no profile.
C31_MutationFrame ==
    [][\A c \in CallIds :
          /\ (UpdateStep(c) \/ VerifyStep(c))
                => LET pid == calls'[c].profileId
                   IN /\ Len(profiles') = Len(profiles)
                      /\ \A i \in 1..Len(profiles) :
                            IF profiles[i].id # pid
                            THEN profiles'[i] = profiles[i]
                            ELSE /\ profiles'[i].id = profiles[i].id
                                 /\ profiles'[i].user_id = profiles[i].user_id
                                 /\ profiles'[i].email = profiles[i].email
                                 /\ profiles'[i].full_name = profiles[i].full_name
                                 /\ profiles'[i].role_category = profiles[i].role_category
                                 /\ VerifyStep(c) =>
                                       profiles'[i].wallet_address = profiles[i].wallet_address
          /\ (/\ calls[c].op = "updateWallet"
              /\ calls'[c] # calls[c]
              /\ ~UpdateStep(c))
                => profiles' = profiles]_vars

\* setVerified has unverified profile 2, which keeps its wallet, and
\* updateWallet has rebound profile 1, which keeps its email and role.
C31_Witness ==
    \E c, d \in CallIds :
        /\ calls[c].op = "setVerified" /\ Done(c) /\ calls[c].result.success
        /\ calls[c].profileId = ProfileId(2) /\ ~calls[c].verify
        /\ calls[d].op = "updateWallet" /\ Done(d) /\ calls[d].result.success
        /\ calls[d].profileId = ProfileId(1)
        /\ Len(profiles) = 2
        /\ profiles[2].wallet_address = WalletAB
        /\ ~profiles[2].is_wallet_verified
        /\ profiles[1].wallet_address = calls[d].normalizedWallet
        /\ profiles[1].email = "admin@x.com"

\* The profiles the lookup WHERE wallet_address ILIKE p matches.
LookupMatches(p) ==
    {r \in Rows : r.wallet_address # NULL /\ ILike(r.wallet_address, p)}

\* C32: deterministic lookup - in every reachable state, for every
\* well-formed wallet input, at most one profile matches authorize's
\* case-insensitive lookup, and authorize has exactly one possible response
\* for the input and each role.
C32_DeterministicLookup ==
    \A w \in LoginWallets :
        IsWellFormed(w)
            => /\ Cardinality(LookupMatches(toLowerCase(w))) <= 1
               /\ \A role \in LoginRoles :
                     Cardinality(verifyWalletAuthorization(w, role)) = 1

\* A login with the upper-case spelling of a wallet that a rebind stored
\* found the one profile holding it, while another profile holds another
\* wallet.
C32_Witness ==
    \E c, d \in CallIds :
        /\ calls[c].op = "updateWallet" /\ "profile" \in calls[c].wrote
        /\ calls[d].op = "authorize" /\ Done(d)
        /\ calls[d].walletAddress # toLowerCase(calls[d].walletAddress)
        /\ toLowerCase(calls[d].walletAddress) = calls[c].normalizedWallet
        /\ calls[d].result.profileId = calls[c].profileId
        /\ Cardinality({r \in Rows : r.wallet_address # NULL}) = 2

\* The login responses for wallet input w, held by no profile, and role:
\* each is a denial with the not-found reason.
NotFoundAnswered(w, role) ==
    (/\ w # <<>>
     /\ role # ""
     /\ \A r \in Rows : r.wallet_address # toLowerCase(w))
        => \A resp \in verifyWalletAuthorization(w, role) :
              /\ ~resp.isAuthorized
              /\ resp.error = ErrWalletNotFound

\* The result of a finished request is structured: a success without an
\* error message or a failure with one; a request in progress has a next
\* step.
StructuredResults ==
    \A c \in CallIds :
        /\ (Done(c) /\ calls[c].op \in {"register", "updateWallet", "setVerified"})
              => /\ calls[c].result.success \in Booleans
                 /\ calls[c].result.success <=> calls[c].result.error = NoError
        /\ (Done(c) /\ calls[c].op = "authorize")
              => /\ calls[c].result.isAuthorized \in Booleans
                 /\ calls[c].result.isAuthorized => calls[c].result.error = NoError
        /\ calls[c].pc \notin {"idle", "done"}
              => ENABLED (Next /\ calls'[c].pc # calls[c].pc)

\* C33: structured termination - every register, updateWallet, setVerified
\* and authorize ends with a structured result (success, or a failure with
\* an error message) for every input and collaborator failure, and authorize
\* for a wallet input held by no profile answers authorized=false with the
\* not-found reason.
C33_StructuredTermination ==
    /\ StructuredResults
    /\ \A w \in LoginWallets, role \in LoginRoles : NotFoundAnswered(w, role)

\* C34: history ordering - a getWalletAuditLog that the store answers to a
\* caller the read policy admits returns exactly the rows of the profile,
\* in the reverse of the order in which they were appended.
C34_HistoryNewestFirst ==
    [][\A c \in CallIds :
          (/\ calls[c].pc = "idle"
           /\ calls'[c].op = "auditHistory"
           /\ ~calls'[c].result.failed
           /\ admin_view_wallet_audit(calls'[c].caller))
              => LET entries == calls'[c].result.entries
                     mine == AuditOf(calls'[c].profileId)
                 IN /\ Len(entries) = Cardinality(mine)
                    /\ \A i \in mine :
                          EntryKey(entries[Cardinality({j \in mine : j >= i})])
                              = EntryKey(audit[i])]_vars

\* Position of the most recently appended row of profile pid whose action
\* is in acts; 0 when there is none.
LastEntry(pid, acts) ==
    LET S == {i \in AuditOf(pid) : audit[i].action \in acts}
    IN IF S = {} THEN 0 ELSE CHOOSE i \in S : \A j \in S : j <= i

\* C35: the ledger mirrors the wallet binding - in every reachable state,
\* for each profile with a wallet_added or wallet_changed row, the new_value
\* of the most recently appended such row is the profile's wallet_address.
C35_LedgerMirrorsWallet ==
    \A r \in Rows :
        LET last == LastEntry(r.id, {"wallet_added", "wallet_changed"})
        IN last # 0 => audit[last].new_value = r.wallet_address

Bound(a) == \E r \in Rows : r.wallet_address = a

\* A successful rebind has moved some profile from wallet a to another one.
Released(a) ==
    \E c \in CallIds :
        /\ calls[c].op = "updateWallet"
        /\ "profile" \in calls[c].wrote
        /\ calls[c].priorWallet = a
        /\ calls[c].normalizedWallet # a

\* Every login with a spelling of wallet a is denied, whatever the role.
Denied(a) ==
    \A w \in {x \in LoginWallets \cup FormWallets \cup {a} : toLowerCase(x) = a},
       role \in LoginRoles \cup {r.role_category : r \in Rows} :
        \A resp \in verifyWalletAuthorization(w, role) : ~resp.isAuthorized

\* Request d stores a profile row with wallet a in this step.
BindStep(d, a) ==
    /\ "profile" \notin calls[d].wrote
    /\ "profile" \in calls'[d].wrote
    /\ calls'[d].normalizedWallet = a

\* C37: the old wallet is released by a rebind - the write of an
\* updateWallet that moves a profile from wallet a to another wallet leaves
\* no profile holding a and every login with a denied; from then on a
\* becomes held again only by a register or updateWallet that stores it;
\* and while it is not held, a register or updateWallet for a passes its
\* wallet check and its write is not refused by the unique constraint.
C37_OldWalletReleased ==
    [][\A a \in {WalletAB, WalletCD, WalletEF} :
          /\ \A c \in CallIds :
                (UpdateStep(c) /\ calls'[c].priorWallet = a
                               /\ calls'[c].normalizedWallet # a)
                    => (~Bound(a))' /\ Denied(a)'
          /\ (Released(a) /\ ~Bound(a))
                => /\ Denied(a)
                   /\ Bound(a)' => \E d \in CallIds : BindStep(d, a)
                   /\ \A d \in CallIds :
                         (/\ calls[d].normalizedWallet = a
                          /\ \/ Answered(d, "reg_wallet")
                             \/ Answered(d, "upd_wallet"))
                             => calls'[d].pc # "done"
                   /\ \A d \in CallIds :
                         (/\ calls[d].normalizedWallet = a
                          /\ calls[d].pc \in {"reg_insert", "upd_update"}
                          /\ calls'[d].pc # calls[d].pc)
                             => "uniqueViolation" \notin calls'[d].wrote]_vars

\* A rebind has moved profile 2 from 0x..ab to 0x..cd, and a registration
\* made after it has bound 0x..ab, typed in upper case, to a new profile.
C37_Witness ==
    \E c, d \in CallIds :
        /\ calls[c].op = "updateWallet" /\ Done(c) /\ calls[c].result.success
        /\ calls[c].profileId = ProfileId(2)
        /\ calls[c].priorWallet = WalletAB
        /\ calls[c].normalizedWallet = WalletCD
        /\ c < d
        /\ calls[d].op = "register" /\ Done(d) /\ calls[d].result.success
        /\ calls[d].walletAddress = Addr("A", "B")
        /\ Len(profiles) = 3
        /\ profiles[3].wallet_address = WalletAB
        /\ profiles[2].wallet_address = WalletCD

\* The roles a login may present: those of the login form and those stored.
AllRoles == LoginRoles \cup {r.role_category : r \in Rows}

\* The roles for which a login with wallet input w can be authorized, and
\* the profile ids a login with w can return.
AuthorizedRoles(w) ==
    {role \in AllRoles : \E resp \in verifyWalletAuthorization(w, role) : resp.isAuthorized}

ReturnedProfiles(w) ==
    {resp.profileId : resp \in UNION {verifyWalletAuthorization(w, role) : role \in AllRoles}}
        \ {NULL}

\* C38: one wallet, one role - in every reachable state, for every wallet
\* input w, authorize(w, r) can be authorized for at most one role r, and
\* at most one profile id can be returned for w.
C38_OneWalletOneRole ==
    \A w \in LoginWallets :
        /\ Cardinality(AuthorizedRoles(w)) <= 1
        /\ Cardinality(ReturnedProfiles(w)) <= 1

====
